---- MODULE Spec2Model ----
(***************************************************************************)
(* xcute: read lines from standard input and run a command template once   *)
(* per non-empty line, with the marker {} replaced by the line.            *)
(*                                                                         *)
(* The repository holds the program in two revisions:                      *)
(*   "app"    the App/CommandExecutor revision (src/main_test.go:461-783,  *)
(*            the one the tests exercise),                                 *)
(*   "legacy" the revision of src/main.go (src/unnamed/part_000 is the     *)
(*            same logic with hand-written ANSI colours).                  *)
(* The two have the same control flow but for one place: where a          *)
(* force-continue run with failed commands ends. A run is a run of both    *)
(* revisions until it reaches that place; there it goes on as one of them, *)
(* and the variable build says which. What is written to stderr is that of *)
(* the app revision (the legacy revision has no --color, colours always,   *)
(* and main prints no message for the error processStdin returned).        *)
(*                                                                         *)
(* A Go string is modelled as a sequence of one-character strings.         *)
(***************************************************************************)
EXTENDS Integers, Sequences, FiniteSets, TLC

VARIABLES
    build,          \* the revision the run has shown itself to be ("" for both)
    opts,           \* Options (parsed flags)
    args,           \* flag.Args(): the command template
    pc,             \* position of the single thread of control
    line,           \* processStdin: line
    commandDisplay, \* processStdin: commandDisplay (the command string in shell mode)
    commandArgs,    \* processStdin: commandArgs (direct mode)
    response,       \* processStdin: response of the last fmt.Scanln
    lastErrorCode,  \* processStdin: lastErrorCode
    scanErr,        \* scanner.Err() != nil
    stdout,         \* lines written to app.stdout
    stderr,         \* messages written to app.stderr (os.Stderr in main)
    shellCommands,  \* arguments of the ExecuteShell calls, in order
    directCommands, \* arguments of the ExecuteDirect calls, in order
    statuses,       \* the status each executor call returned, in order
    consumed,       \* the lines scanner.Scan has returned, in order (stripped)
    events,         \* what happened, in order: <<kind, number of the line>>
    result,         \* what processStdin returned
    exitStatus,     \* the status the process exited with (NoExit while running)
    started,        \* for each executor call, in order: did cmd.Run start a process
    canFailToStart, \* the environment: a program or the shell may fail to start
    rpT, rpR, rpOut, \* template, replacement and result of a replacePlaceholders run
    colorOption,    \* shouldUseColor: colorOption
    noColor,        \* the environment variable NO_COLOR
    stderrKind,     \* what the stderr handed to shouldUseColor is
    useColor,       \* App.useColor: what shouldUseColor returned
    osStdin,        \* the lines still unread in the standard input of the process
    scanBuf,        \* the lines the bufio.Scanner has read ahead
    rawToken        \* what stood between two line feeds of the input

vars == << build, opts, args, pc, line, commandDisplay, commandArgs,
           response, lastErrorCode, scanErr, stdout, stderr, shellCommands,
           directCommands, statuses, consumed, events, result, exitStatus,
           started, canFailToStart, rpT, rpR, rpOut,
           colorOption, noColor, stderrKind, useColor, osStdin, scanBuf,
           rawToken >>

rpVars == << rpT, rpR, rpOut >>

colorVars == << colorOption, noColor, stderrKind, useColor >>

stdinVars == << osStdin, scanBuf, rawToken >>

----------------------------------------------------------------------------
(* Bounds of the model *)

MaxLines == 3
MaxTLen == 4
MaxRLen == 2

\* exitStatus while the process runs
NoExit == -1

----------------------------------------------------------------------------
(* Strings *)

CR == "\r"
LF == "\n"
SP == " "

\* strings.Join(elems, sep)
RECURSIVE Join(_, _)
Join(elems, sep) ==
    IF Len(elems) = 0 THEN << >>
    ELSE IF Len(elems) = 1 THEN elems[1]
    ELSE elems[1] \o sep \o Join(Tail(elems), sep)

\* strings.TrimRight(s, cutset)
RECURSIVE TrimRight(_, _)
TrimRight(s, cutset) ==
    IF Len(s) > 0 /\ s[Len(s)] \in cutset
    THEN TrimRight(SubSeq(s, 1, Len(s) - 1), cutset)
    ELSE s

\* bufio.ScanLines hands out a token without its line feed and drops one
\* carriage return at its end (dropCR)
dropCR(data) ==
    IF Len(data) > 0 /\ data[Len(data)] = CR
    THEN SubSeq(data, 1, Len(data) - 1)
    ELSE data

\* strings.ReplaceAll(s, "{}", new): one pass from the left over s
RECURSIVE ReplaceAll(_, _)
ReplaceAll(s, new) ==
    IF Len(s) < 2 THEN s
    ELSE IF s[1] = "{" /\ s[2] = "}"
         THEN new \o ReplaceAll(SubSeq(s, 3, Len(s)), new)
         ELSE << s[1] >> \o ReplaceAll(Tail(s), new)

\* strings.Replace(s, "{}", new, 1): the first marker only
RECURSIVE ReplaceFirst(_, _)
ReplaceFirst(s, new) ==
    IF Len(s) < 2 THEN s
    ELSE IF s[1] = "{" /\ s[2] = "}"
         THEN new \o SubSeq(s, 3, Len(s))
         ELSE << s[1] >> \o ReplaceFirst(Tail(s), new)

\* (variant) replacePlaceholders that replaces the first marker only
replacePlaceholdersOnce(template, input) == ReplaceFirst(template, input)

replacePlaceholders(template, input) == ReplaceAll(template, input)

----------------------------------------------------------------------------
(* The inputs the model draws from *)

\* Tokens of the input stream: what lies between two line feeds. The stream
\* is the environment's: each Scan meets one of these, the end, or an error
RawLines == { << >>, << "a", SP, "b" >>, << "{", "}", CR, CR >> }

\* Command templates: none, a direct one of three arguments (no marker, one
\* marker, two markers), and a single string (the shape shell mode needs)
DirectTemplate == << << "e" >>, << "{", "}" >>, << "x", "{", "}", "{", "}" >> >>
ShellTemplate == << << "e", SP, "{", "}", SP, "{", "}" >> >>
Templates == { << >>, DirectTemplate, ShellTemplate }

\* -t: seconds between commands
Intervals == { 0, 1 }

\* Options
OptionsType ==
    [ dryRun : BOOLEAN, interactive : BOOLEAN, showWhat : BOOLEAN,
      showCommand : BOOLEAN, forceContinue : BOOLEAN, interval : Intervals,
      shellMode : BOOLEAN ]

\* What a confirmation read can meet on standard input: a line, or its end
ConfirmTexts == { << "y" >>, << "Y" >>, << "n" >>, << >> }
ConfirmSource ==
    { [ eof |-> FALSE, text |-> t ] : t \in ConfirmTexts }
        \cup { [ eof |-> TRUE, text |-> << >> ] }

\* The statuses a command can end with: success and two different failures
Statuses == { 0, 1, 2 }

\* What cmd.Run() can end with: nil, an *exec.ExitError that carries the
\* status the process exited with, or another error (no process was started)
RunNil == [ err |-> "nil", code |-> 0 ]
RunExit(c) == [ err |-> "ExitError", code |-> c ]
RunNotStarted == [ err |-> "other", code |-> 0 ]

RunOutcomes(fail) ==
    { RunNil } \cup { RunExit(c) : c \in Statuses \ { 0 } }
        \cup (IF fail THEN { RunNotStarted } ELSE { })

\* --color, NO_COLOR (unset, or set to a value) and the stderr of the App
ColorOptions == { "never", "always", "auto", "invalid", "", "Always" }
NoColorValues ==
    { [ set |-> FALSE, value |-> "" ], [ set |-> TRUE, value |-> "" ],
      [ set |-> TRUE, value |-> "1" ], [ set |-> TRUE, value |-> "0" ] }
StderrKinds == { "terminal", "file", "buffer" }

\* error values of processStdin
NoResult == [ kind |-> "running", code |-> 0 ]
Nil == [ kind |-> "nil", code |-> 0 ]
ErrCommandFailed(c) == [ kind |-> "command failed", code |-> c ]
ErrCompletedWithErrors(c) == [ kind |-> "completed with errors", code |-> c ]
ErrReadingStdin == [ kind |-> "error reading stdin", code |-> 0 ]

----------------------------------------------------------------------------
(* The executor and the colour decision *)

\* (variant) a program that could not be started counts as a success
RunStatusNotStartedZero(run) ==
    IF run.err = "ExitError" THEN run.code ELSE 0

\* the status both executors make of the result of cmd.Run()
RunStatus(run) ==
    IF run.err = "nil" THEN 0
    ELSE IF run.err = "ExitError" THEN run.code
    ELSE 1

\* RealCommandExecutor.ExecuteShell: sh -c command
ExecuteShell(command, run) == RunStatus(run)

\* (variant) the command is run whatever the arguments are
ExecuteDirectAlwaysRuns(a, run) == RunStatus(run)

\* RealCommandExecutor.ExecuteDirect: nothing is run for no arguments
ExecuteDirect(a, run) == IF Len(a) = 0 THEN 0 ELSE RunStatus(run)

\* whether ExecuteShell has a process running: cmd.Run() started one
ShellStarts(command, run) == run # RunNotStarted

\* whether ExecuteDirect has a process running: cmd.Run() is reached and
\* started one
DirectStarts(a, run) == Len(a) # 0 /\ run # RunNotStarted

\* os.Getenv: the empty string for a variable that is not set
Getenv(v) == IF v.set THEN v.value ELSE ""

\* isatty.IsTerminal on the descriptor when stderr is an *os.File
IsTerminalFile(k) == k = "terminal"

\* (variant) --color decides before NO_COLOR is looked at
shouldUseColorOptionFirst(option, env, k) ==
    IF option = "never" THEN FALSE
    ELSE IF option = "always" THEN TRUE
    ELSE IF Getenv(env) # "" THEN FALSE
    ELSE IF option = "auto" THEN IsTerminalFile(k)
    ELSE FALSE

shouldUseColor(option, env, k) ==
    IF Getenv(env) # "" THEN FALSE
    ELSE IF option = "never" THEN FALSE
    ELSE IF option = "always" THEN TRUE
    ELSE IF option = "auto" THEN IsTerminalFile(k)
    ELSE FALSE

----------------------------------------------------------------------------
(* Output *)

\* a message of the print functions of App: coloured when app.useColor
Msg(k, t, c) == [ kind |-> k, text |-> t, code |-> c, colored |-> useColor ]

\* a message written with fmt.Fprintf
Plain(k, t, c) == [ kind |-> k, text |-> t, code |-> c, colored |-> FALSE ]

\* (variant) the notice is tied to -w alone
EmptyNoticeTargetOnly(o) ==
    IF o.showWhat THEN << Msg("warning", << "[empty line]" >>, 0) >> ELSE << >>

\* app.printWarning("[empty line]\n") when -w or -l is given
EmptyNotice(o) ==
    IF o.showWhat \/ o.showCommand
    THEN << Msg("warning", << "[empty line]" >>, 0) >>
    ELSE << >>

\* app.printTarget("%s\n", line) when -w is given
TargetLine(o, l) ==
    IF o.showWhat THEN << Msg("target", l, 0) >> ELSE << >>

\* app.printCommand("> %s\n", command) when -l is given
CommandLine(o, display) ==
    IF o.showCommand THEN << Msg("command", << ">", SP >> \o display, 0) >> ELSE << >>

\* (variant) the prompt is written in a dry run too
PromptLineInDryRun(o, display) ==
    IF o.interactive
    THEN << Plain("prompt", << "Execute: " >> \o display \o << " [y/N] " >>, 0) >>
    ELSE << >>

\* fmt.Fprintf(app.stderr, "Execute: %s [y/N] ", command) when -i is given
PromptLine(o, display) ==
    IF o.interactive /\ ~o.dryRun
    THEN << Plain("prompt", << "Execute: " >> \o display \o << " [y/N] " >>, 0) >>
    ELSE << >>

\* (variant) only a failure is reported
ExitLineFailureOnly(o, exitCode) ==
    IF o.showCommand /\ exitCode # 0
    THEN << Msg("error", << "[exit: %d]" >>, exitCode) >>
    ELSE << >>

\* app.printSuccess / app.printError("[exit: %d]\n", exitCode) when -l is given
ExitLine(o, exitCode) ==
    IF o.showCommand
    THEN << Msg(IF exitCode = 0 THEN "success" ELSE "error", << "[exit: %d]" >>, exitCode) >>
    ELSE << >>

\* main: the usage or error message of a rejected configuration
UsageMessage == << Plain("fatal", << "Usage / Error" >>, 0) >>

\* main: fmt.Fprintf(os.Stderr, "Error: %v\n", err) when processStdin failed
MainMessage(res) ==
    IF res.kind # "nil" THEN << Plain("fatal", << "Error: %v" >>, 0) >> ELSE << >>

----------------------------------------------------------------------------
(* The per-line pipeline *)

\* (variant) the line feed and one carriage return before it are taken off
StrippedLineOneCR(t) == dropCR(t)

\* the line processStdin works on: the scanner's token, trimmed
StrippedLine(token) == TrimRight(dropCR(token), { LF, CR })

\* (variant) no line counts as empty
IsEmptyLineNever(l) == FALSE

\* line == ""
IsEmptyLine(l) == l = << >>

\* strings.Fields: the words of s between spaces
RECURSIVE SplitFields(_, _)
SplitFields(s, cur) ==
    IF Len(s) = 0 THEN (IF cur = << >> THEN << >> ELSE << cur >>)
    ELSE IF s[1] = SP
         THEN (IF cur = << >> THEN << >> ELSE << cur >>) \o SplitFields(Tail(s), << >>)
         ELSE SplitFields(Tail(s), Append(cur, s[1]))

\* (variant) the resolved command split again at the spaces, as a command
\* line built as one string would be
ResolveArgsSplit(template, l) ==
    SplitFields(Join([ i \in 1 .. Len(template) |->
                        replacePlaceholders(template[i], l) ], << SP >>), << >>)

\* the resolved command: every template element with the markers replaced
ResolveArgs(template, l) ==
    [ i \in 1 .. Len(template) |-> replacePlaceholders(template[i], l) ]

\* (variant) the shell command handed on without the markers replaced
DisplayUnresolved(o, template, l) ==
    IF o.shellMode
    THEN template[1]
    ELSE Join([ i \in 1 .. Len(template) |-> replacePlaceholders(template[i], l) ],
              << SP >>)

\* (variant) the command resolved for an earlier line is kept for the next
DisplayCached(o, template, l) ==
    IF commandDisplay # << >> THEN commandDisplay
    ELSE IF o.shellMode THEN replacePlaceholders(template[1], l)
    ELSE Join(ResolveArgs(template, l), << SP >>)

\* commandDisplay: the command string (shell mode) or the arguments joined
Display(o, template, l) ==
    IF o.shellMode
    THEN replacePlaceholders(template[1], l)
    ELSE Join(ResolveArgs(template, l), << SP >>)

\* fmt.Scanln(&response): the first space-delimited word of the line read;
\* response keeps its zero value at end of input or on an empty line
RECURSIVE SkipSpaces(_)
SkipSpaces(s) ==
    IF Len(s) > 0 /\ s[1] = SP THEN SkipSpaces(Tail(s)) ELSE s

RECURSIVE Word(_)
Word(s) ==
    IF Len(s) = 0 \/ s[1] = SP THEN << >> ELSE << s[1] >> \o Word(Tail(s))

Scanln(src) == IF src.eof THEN << >> ELSE Word(SkipSpaces(src.text))

\* (variant) only the lower-case y is a yes
AffirmativeLower(r) == r = << "y" >>

Affirmative(r) == r = << "y" >> \/ r = << "Y" >>

\* (variant) a failure does not stop the run
AfterExecNoStop(o, exitCode) ==
    IF o.interval > 0 THEN "sleep" ELSE "scan"

\* (variant) a failure stops the run whatever -f says
AfterExecAlwaysStop(o, exitCode) ==
    IF exitCode # 0 THEN "exited"
    ELSE IF o.interval > 0 THEN "sleep"
    ELSE "scan"

\* (variant) no wait between the commands
AfterExecNoSleep(o, exitCode) ==
    IF exitCode # 0 /\ ~o.forceContinue THEN "exited" ELSE "scan"

\* (variant) a failed command is run again
AfterExecRetry(o, exitCode) ==
    IF exitCode # 0 /\ ~o.forceContinue THEN "exited"
    ELSE IF exitCode # 0 THEN "exec"
    ELSE IF o.interval > 0 THEN "sleep"
    ELSE "scan"

\* (variant) the loop does not go on after a call
AfterExecNoReturn(o, exitCode) == "called"

\* where the loop goes after an execution
AfterExec(o, exitCode) ==
    IF exitCode # 0 /\ ~o.forceContinue THEN "exited"
    ELSE IF o.interval > 0 THEN "sleep"
    ELSE "scan"

\* (variant) the first failure is kept
RecordStatusFirst(last, exitCode) ==
    IF exitCode # 0 /\ last = 0 THEN exitCode ELSE last

\* (variant) a success resets the record
RecordStatusReset(last, exitCode) == exitCode

\* lastErrorCode after an execution
RecordStatus(last, exitCode) == IF exitCode # 0 THEN exitCode ELSE last

\* what processStdin returns after an execution that ends the run
ExecResult(o, exitCode, res) ==
    IF exitCode # 0 /\ ~o.forceContinue THEN ErrCommandFailed(exitCode) ELSE res

\* (variant) the failure of the commands is looked at before the read error
FinalResultStatusFirst(err, last) ==
    IF last # 0 THEN ErrCompletedWithErrors(last)
    ELSE IF err THEN ErrReadingStdin
    ELSE Nil

\* the error processStdin returns after the loop
FinalResult(err, last) ==
    IF err THEN ErrReadingStdin
    ELSE IF last # 0 THEN ErrCompletedWithErrors(last)
    ELSE Nil

\* the status main ends the process with once processStdin has returned
MainExitStatus(res) == IF res # Nil THEN 1 ELSE 0

\* the two revisions part where commands failed and reading did not
Differ(err, last) == ~err /\ last # 0

\* the revision a run that returns from processStdin has shown itself to be
ReturningBuild(b, err, last) == IF Differ(err, last) THEN "app" ELSE b

----------------------------------------------------------------------------
(* Initial states *)

Init ==
    /\ build = ""
    /\ opts \in OptionsType
    /\ args \in Templates
    /\ pc = "main"
    /\ line = << >>
    /\ commandDisplay = << >>
    /\ commandArgs = << >>
    /\ response = << >>
    /\ lastErrorCode = 0
    /\ scanErr = FALSE
    /\ stdout = << >>
    /\ stderr = << >>
    /\ shellCommands = << >>
    /\ directCommands = << >>
    /\ statuses = << >>
    /\ consumed = << >>
    /\ events = << >>
    /\ result = NoResult
    /\ exitStatus = NoExit
    /\ started = << >>
    /\ canFailToStart = FALSE
    /\ rpT = << >>
    /\ rpR = << >>
    /\ rpOut = << >>
    /\ colorOption = "auto"
    /\ noColor = [ set |-> FALSE, value |-> "" ]
    /\ stderrKind = "file"
    /\ useColor = FALSE
    /\ osStdin = << >>
    /\ scanBuf = << >>
    /\ rawToken = << >>

----------------------------------------------------------------------------
(* main: validation of the arguments *)

\* the template main accepts: at least one argument, exactly one with -c
ValidArgs(o, a) == Len(a) # 0 /\ (o.shellMode => Len(a) = 1)

\* (variant) any value of --color is let through
ValidColorAny(c) == TRUE

\* the values of --color main accepts
ValidColor(c) == c \in { "never", "always", "auto" }

MainReject ==
    /\ pc = "main"
    /\ ~(ValidArgs(opts, args) /\ ValidColor(colorOption))
    /\ pc' = "exited"
    /\ exitStatus' = 1
    /\ stderr' = stderr \o UsageMessage
    /\ UNCHANGED << build, opts, args, line, commandDisplay, commandArgs,
                    response, lastErrorCode, scanErr, stdout,
                    shellCommands, directCommands, statuses, consumed, events,
                    result, started,
                    canFailToStart, rpVars, colorVars, stdinVars >>

MainStart ==
    /\ pc = "main"
    /\ ValidArgs(opts, args)
    /\ ValidColor(colorOption)
    /\ useColor' = shouldUseColor(colorOption, noColor, stderrKind)
    /\ pc' = "scan"
    /\ UNCHANGED << build, opts, args, line, commandDisplay, commandArgs,
                    response, lastErrorCode, scanErr, stdout, stderr,
                    shellCommands, directCommands, statuses, consumed, events,
                    result, exitStatus, started,
                    canFailToStart, rpVars, colorOption, noColor,
                    stderrKind, stdinVars >>

----------------------------------------------------------------------------
(* processStdin. An action is what the program does between two calls that *)
(* wait for the outside: scanner.Scan, fmt.Scanln, the executor, time.Sleep *)

\* scanner.Scan() returned an empty line: notice, continue
ScanEmpty ==
    /\ pc = "scan"
    /\ Len(consumed) < MaxLines
    /\ \E token \in RawLines :
       LET l == StrippedLine(token)
           n == Len(consumed) + 1
       IN /\ IsEmptyLine(l)
          /\ consumed' = Append(consumed, l)
          /\ line' = l
          /\ stderr' = stderr \o EmptyNotice(opts)
          /\ events' = events \o << << "scan", n >>, << "empty", n >> >>
    /\ response' = << >>
    /\ UNCHANGED << build, opts, args, pc, commandDisplay, commandArgs,
                    lastErrorCode, scanErr, stdout, shellCommands, directCommands,
                    statuses, result, exitStatus, started,
                    canFailToStart, rpVars, colorVars, stdinVars >>

\* (variant) the dry run does not keep the command from running
AfterResolveNoDryRun(o) ==
    IF o.interactive THEN "confirm" ELSE "exec"

\* where a non-empty line goes after the command is resolved and shown
AfterResolve(o) ==
    IF o.dryRun THEN "scan"
    ELSE IF o.interactive THEN "confirm"
    ELSE "exec"

\* (variant) the resolved command goes to the primary output in every run
DryRunOutputAlways(o, display) == << display >>

\* (variant) the preview is left out when -l has shown the command already
DryRunOutputUnlessShown(o, display) ==
    IF o.dryRun /\ ~o.showCommand THEN << display >> ELSE << >>

\* what the dry run writes to the primary output
DryRunOutput(o, display) == IF o.dryRun THEN << display >> ELSE << >>

\* (variant) the command is shown before the target
LineEventsCommandFirst(o, n) ==
    (IF o.showCommand THEN << << "command", n >> >> ELSE << >>)
        \o (IF o.showWhat THEN << << "target", n >> >> ELSE << >>)
        \o (IF o.dryRun THEN << << "dryrun", n >> >> ELSE << >>)
        \o (IF o.interactive /\ ~o.dryRun THEN << << "prompt", n >> >> ELSE << >>)

\* what happens for the non-empty line n before the confirmation or the
\* call, in the order of the statements
LineEvents(o, n) ==
    (IF o.showWhat THEN << << "target", n >> >> ELSE << >>)
        \o (IF o.showCommand THEN << << "command", n >> >> ELSE << >>)
        \o (IF o.dryRun THEN << << "dryrun", n >> >> ELSE << >>)
        \o (IF o.interactive /\ ~o.dryRun THEN << << "prompt", n >> >> ELSE << >>)

\* scanner.Scan() returned a non-empty line: show it, resolve the command,
\* show that, and either print it (dry run), ask (interactive) or go on to run it
ScanLine ==
    /\ pc = "scan"
    /\ Len(consumed) < MaxLines
    /\ \E token \in RawLines :
       LET l == StrippedLine(token)
           n == Len(consumed) + 1
           display == Display(opts, args, l)
       IN /\ ~IsEmptyLine(l)
          /\ consumed' = Append(consumed, l)
          /\ line' = l
          /\ commandDisplay' = display
          /\ commandArgs' = IF opts.shellMode THEN << >> ELSE ResolveArgs(args, l)
          /\ response' = << >>
          /\ stderr' = stderr \o TargetLine(opts, l) \o CommandLine(opts, display)
                              \o PromptLine(opts, display)
          /\ stdout' = stdout \o DryRunOutput(opts, display)
          /\ events' = events \o << << "scan", n >> >> \o LineEvents(opts, n)
          /\ pc' = AfterResolve(opts)
    /\ UNCHANGED << build, opts, args, lastErrorCode, scanErr, shellCommands,
                    directCommands, statuses, result, exitStatus, started,
                    canFailToStart, rpVars, colorVars, stdinVars >>

\* scanner.Scan() returned false at the end of the input: processStdin
\* returns nil or the failure of the commands, and main exits
ScanEOF ==
    /\ pc = "scan"
    /\ events' = Append(events, << "eof", Len(consumed) >>)
    /\ response' = << >>
    /\ build' = ReturningBuild(build, scanErr, lastErrorCode)
    /\ result' = FinalResult(scanErr, lastErrorCode)
    /\ exitStatus' = MainExitStatus(FinalResult(scanErr, lastErrorCode))
    /\ stderr' = stderr \o MainMessage(FinalResult(scanErr, lastErrorCode))
    /\ pc' = "exited"
    /\ UNCHANGED << opts, args, line, commandDisplay, commandArgs,
                    lastErrorCode, scanErr, stdout, shellCommands,
                    directCommands, statuses, consumed, started,
                    canFailToStart, rpVars, colorVars, stdinVars >>

\* the same in the legacy revision when commands failed: processStdin does
\* not return, it leaves through os.Exit(lastErrorCode)
ScanEOFLegacy ==
    /\ pc = "scan"
    /\ Differ(scanErr, lastErrorCode)
    /\ events' = Append(events, << "eof", Len(consumed) >>)
    /\ response' = << >>
    /\ build' = "legacy"
    /\ exitStatus' = lastErrorCode
    /\ pc' = "exited"
    /\ UNCHANGED << opts, args, line, commandDisplay, commandArgs,
                    lastErrorCode, scanErr, stdout, stderr, shellCommands,
                    directCommands, statuses, consumed, result, started,
                    canFailToStart, rpVars, colorVars, stdinVars >>

\* scanner.Scan() returned false because reading failed: processStdin
\* returns the read error, and main exits
ScanError ==
    /\ pc = "scan"
    /\ scanErr' = TRUE
    /\ events' = Append(events, << "readerr", Len(consumed) >>)
    /\ response' = << >>
    /\ result' = FinalResult(TRUE, lastErrorCode)
    /\ exitStatus' = MainExitStatus(FinalResult(TRUE, lastErrorCode))
    /\ stderr' = stderr \o MainMessage(FinalResult(TRUE, lastErrorCode))
    /\ pc' = "exited"
    /\ UNCHANGED << build, opts, args, line, commandDisplay, commandArgs,
                    lastErrorCode, stdout, shellCommands,
                    directCommands, statuses, consumed, started,
                    canFailToStart, rpVars, colorVars, stdinVars >>

\* fmt.Scanln(&response) returned: run the command only on y or Y
Confirm ==
    /\ pc = "confirm"
    /\ \E src \in ConfirmSource :
          /\ response' = Scanln(src)
          /\ pc' = IF Affirmative(Scanln(src)) THEN "exec" ELSE "scan"
          /\ events' = Append(events,
                 << IF Affirmative(Scanln(src)) THEN "accept" ELSE "decline",
                    Len(consumed) >>)
    /\ UNCHANGED << build, opts, args, line, commandDisplay, commandArgs,
                    lastErrorCode, scanErr, stdout, stderr, shellCommands,
                    directCommands, statuses, consumed, result, exitStatus,
                    started,
                    canFailToStart, rpVars, colorVars, stdinVars >>

\* the executor ran the command and returned exitCode: report it, record a
\* failure and, unless -f is given, return it; main then exits
Execute ==
    /\ pc = "exec"
    /\ \E run \in RunOutcomes(canFailToStart) :
       LET exitCode == IF opts.shellMode THEN ExecuteShell(commandDisplay, run)
                       ELSE ExecuteDirect(commandArgs, run)
       IN /\ started' = Append(started,
                                IF opts.shellMode
                                THEN ShellStarts(commandDisplay, run)
                                ELSE DirectStarts(commandArgs, run))
          /\ statuses' = Append(statuses, exitCode)
          /\ stderr' = stderr \o ExitLine(opts, exitCode)
                \o (IF AfterExec(opts, exitCode) = "exited"
                    THEN MainMessage(ExecResult(opts, exitCode, result))
                    ELSE << >>)
          /\ lastErrorCode' = RecordStatus(lastErrorCode, exitCode)
          /\ result' = ExecResult(opts, exitCode, result)
          /\ pc' = AfterExec(opts, exitCode)
          /\ exitStatus' =
                IF AfterExec(opts, exitCode) = "exited"
                THEN MainExitStatus(ExecResult(opts, exitCode, result))
                ELSE exitStatus
          /\ events' = events \o << << "exec", Len(consumed) >> >>
                \o (IF opts.showCommand THEN << << "exit", Len(consumed) >> >> ELSE << >>)
    /\ shellCommands' =
          IF opts.shellMode THEN Append(shellCommands, commandDisplay) ELSE shellCommands
    /\ directCommands' =
          IF opts.shellMode THEN directCommands ELSE Append(directCommands, commandArgs)
    /\ response' = << >>
    /\ UNCHANGED << build, opts, args, line, commandDisplay, commandArgs,
                    scanErr, stdout, consumed, canFailToStart, rpVars,
                    colorVars, stdinVars >>

\* time.Sleep(interval) returned
Sleep ==
    /\ pc = "sleep"
    /\ pc' = "scan"
    /\ events' = Append(events, << "sleep", Len(consumed) >>)
    /\ UNCHANGED << build, opts, args, line, commandDisplay, commandArgs,
                    response, lastErrorCode, scanErr, stdout, stderr,
                    shellCommands, directCommands, statuses, consumed, result,
                    exitStatus, started,
                    canFailToStart, rpVars, colorVars, stdinVars >>

Next ==
    \/ MainReject
    \/ MainStart
    \/ ScanEmpty
    \/ ScanLine
    \/ ScanEOF
    \/ ScanEOFLegacy
    \/ ScanError
    \/ Confirm
    \/ Execute
    \/ Sleep

Spec == Init /\ [][Next]_vars

----------------------------------------------------------------------------
(* The same program where a program or the shell may fail to start. The    *)
(* line processor sees the status only: a run here is a run of Spec in     *)
(* which some of the statuses 1 are known to come from a failed start. The *)
(* reporting options -w and -l are left off.                               *)

InitLaunch ==
    /\ build = ""
    /\ opts \in { o \in OptionsType : ~o.showWhat /\ ~o.showCommand }
    /\ args \in Templates
    /\ pc = "main"
    /\ line = << >>
    /\ commandDisplay = << >>
    /\ commandArgs = << >>
    /\ response = << >>
    /\ lastErrorCode = 0
    /\ scanErr = FALSE
    /\ stdout = << >>
    /\ stderr = << >>
    /\ shellCommands = << >>
    /\ directCommands = << >>
    /\ statuses = << >>
    /\ consumed = << >>
    /\ events = << >>
    /\ result = NoResult
    /\ exitStatus = NoExit
    /\ started = << >>
    /\ canFailToStart = TRUE
    /\ rpT = << >>
    /\ rpR = << >>
    /\ rpOut = << >>
    /\ colorOption = "auto"
    /\ noColor = [ set |-> FALSE, value |-> "" ]
    /\ stderrKind = "file"
    /\ useColor = FALSE
    /\ osStdin = << >>
    /\ scanBuf = << >>
    /\ rawToken = << >>

SpecLaunch == InitLaunch /\ [][Next]_vars

\* The same runs when the program is never held up for good: the process
\* has one thread, and scanner.Scan, fmt.Scanln, the executor and
\* time.Sleep return, so the step that is due is taken
Fairness == WF_vars(Next)

SpecLive == InitLaunch /\ [][Next]_vars /\ Fairness

----------------------------------------------------------------------------
(* replacePlaceholders on its own: every template and replacement over a    *)
(* small alphabet, up to MaxTLen and MaxRLen characters                     *)

RPAlphabet == { "{", "}", "a" }

StringsUpTo(n) == UNION { [ 1 .. k -> RPAlphabet ] : k \in 0 .. n }

RPInit ==
    /\ rpT \in StringsUpTo(MaxTLen)
    /\ rpR \in StringsUpTo(MaxRLen)
    /\ rpOut = << >>
    /\ pc = "rp"
    /\ build = ""
    /\ opts = CHOOSE o \in OptionsType : TRUE
    /\ args = << >>
    /\ line = << >>
    /\ commandDisplay = << >>
    /\ commandArgs = << >>
    /\ response = << >>
    /\ lastErrorCode = 0
    /\ scanErr = FALSE
    /\ stdout = << >>
    /\ stderr = << >>
    /\ shellCommands = << >>
    /\ directCommands = << >>
    /\ statuses = << >>
    /\ consumed = << >>
    /\ events = << >>
    /\ result = NoResult
    /\ exitStatus = NoExit
    /\ started = << >>
    /\ canFailToStart = FALSE
    /\ colorOption = "auto"
    /\ noColor = [ set |-> FALSE, value |-> "" ]
    /\ stderrKind = "file"
    /\ useColor = FALSE
    /\ osStdin = << >>
    /\ scanBuf = << >>
    /\ rawToken = << >>

RPApply ==
    /\ pc = "rp"
    /\ rpOut' = replacePlaceholders(rpT, rpR)
    /\ pc' = "rpdone"
    /\ UNCHANGED << build, opts, args, line, commandDisplay, commandArgs,
                    response, lastErrorCode, scanErr, stdout, stderr,
                    shellCommands, directCommands, statuses, consumed, events,
                    result, exitStatus, started, canFailToStart,
                    rpT, rpR, colorVars, stdinVars >>

RPNext == RPApply

SpecRP == RPInit /\ [][RPNext]_vars

----------------------------------------------------------------------------
(* The program started with any value of --color, stderr a terminal and    *)
(* NO_COLOR not set: main rejects the values it does not know, and the     *)
(* messages of the others are coloured or not. The wait between the        *)
(* commands is one second.                                                 *)

InitMain ==
    /\ build = ""
    /\ opts \in { o \in OptionsType : o.interval = 1 }
    /\ args \in Templates
    /\ pc = "main"
    /\ line = << >>
    /\ commandDisplay = << >>
    /\ commandArgs = << >>
    /\ response = << >>
    /\ lastErrorCode = 0
    /\ scanErr = FALSE
    /\ stdout = << >>
    /\ stderr = << >>
    /\ shellCommands = << >>
    /\ directCommands = << >>
    /\ statuses = << >>
    /\ consumed = << >>
    /\ events = << >>
    /\ result = NoResult
    /\ exitStatus = NoExit
    /\ started = << >>
    /\ canFailToStart = FALSE
    /\ rpT = << >>
    /\ rpR = << >>
    /\ rpOut = << >>
    /\ colorOption \in ColorOptions
    /\ noColor = [ set |-> FALSE, value |-> "" ]
    /\ stderrKind = "terminal"
    /\ useColor = FALSE
    /\ osStdin = << >>
    /\ scanBuf = << >>
    /\ rawToken = << >>

SpecMain == InitMain /\ [][Next]_vars

----------------------------------------------------------------------------
(* shouldUseColor on its own: every option value, NO_COLOR and stderr      *)

ColorInit ==
    /\ colorOption \in ColorOptions
    /\ noColor \in NoColorValues
    /\ stderrKind \in StderrKinds
    /\ useColor = FALSE
    /\ osStdin = << >>
    /\ scanBuf = << >>
    /\ rawToken = << >>
    /\ pc = "color"
    /\ build = ""
    /\ opts = CHOOSE o \in OptionsType : TRUE
    /\ args = << >>
    /\ line = << >>
    /\ commandDisplay = << >>
    /\ commandArgs = << >>
    /\ response = << >>
    /\ lastErrorCode = 0
    /\ scanErr = FALSE
    /\ stdout = << >>
    /\ stderr = << >>
    /\ shellCommands = << >>
    /\ directCommands = << >>
    /\ statuses = << >>
    /\ consumed = << >>
    /\ events = << >>
    /\ result = NoResult
    /\ exitStatus = NoExit
    /\ started = << >>
    /\ canFailToStart = FALSE
    /\ rpT = << >>
    /\ rpR = << >>
    /\ rpOut = << >>

ColorApply ==
    /\ pc = "color"
    /\ useColor' = shouldUseColor(colorOption, noColor, stderrKind)
    /\ pc' = "colordone"
    /\ UNCHANGED << build, opts, args, line, commandDisplay, commandArgs,
                    response, lastErrorCode, scanErr, stdout, stderr,
                    shellCommands, directCommands, statuses, consumed, events,
                    result, exitStatus, started, canFailToStart, rpVars,
                    colorOption, noColor, stderrKind, stdinVars >>

ColorNext == ColorApply

SpecColor == ColorInit /\ [][ColorNext]_vars

----------------------------------------------------------------------------
(* The stripping of a line on its own: every text of up to MaxTLen         *)
(* characters out of carriage return, space and a letter between two line  *)
(* feeds                                                                   *)

StripAlphabet == { CR, SP, "a" }

Tokens == UNION { [ 1 .. k -> StripAlphabet ] : k \in 0 .. MaxTLen }

StripInit ==
    /\ rawToken \in Tokens
    /\ pc = "strip"
    /\ line = << >>
    /\ build = ""
    /\ opts = CHOOSE o \in OptionsType : TRUE
    /\ args = << >>
    /\ commandDisplay = << >>
    /\ commandArgs = << >>
    /\ response = << >>
    /\ lastErrorCode = 0
    /\ scanErr = FALSE
    /\ stdout = << >>
    /\ stderr = << >>
    /\ shellCommands = << >>
    /\ directCommands = << >>
    /\ statuses = << >>
    /\ consumed = << >>
    /\ events = << >>
    /\ result = NoResult
    /\ exitStatus = NoExit
    /\ started = << >>
    /\ canFailToStart = FALSE
    /\ rpT = << >>
    /\ rpR = << >>
    /\ rpOut = << >>
    /\ colorOption = "auto"
    /\ noColor = [ set |-> FALSE, value |-> "" ]
    /\ stderrKind = "file"
    /\ useColor = FALSE
    /\ osStdin = << >>
    /\ scanBuf = << >>

StripApply ==
    /\ pc = "strip"
    /\ line' = StrippedLine(rawToken)
    /\ pc' = "stripdone"
    /\ UNCHANGED << build, opts, args, commandDisplay, commandArgs,
                    response, lastErrorCode, scanErr, stdout, stderr,
                    shellCommands, directCommands, statuses, consumed, events,
                    result, exitStatus, started, canFailToStart, rpVars,
                    colorVars, stdinVars >>

StripNext == StripApply

SpecStrip == StripInit /\ [][StripNext]_vars

----------------------------------------------------------------------------
(* ExecuteDirect on its own, next to the runs of the program: every        *)
(* argument list of up to MaxRLen arguments, the empty one included        *)

DirectWords == { << >>, << "a" >>, << "e" >>, << "x", "a" >> }

DirectArgLists == UNION { [ 1 .. k -> DirectWords ] : k \in 0 .. MaxRLen }

DirectInit ==
    /\ commandArgs \in DirectArgLists
    /\ pc = "direct"
    /\ canFailToStart = TRUE
    /\ build = ""
    /\ opts = CHOOSE o \in OptionsType : TRUE
    /\ args = << >>
    /\ line = << >>
    /\ commandDisplay = << >>
    /\ response = << >>
    /\ lastErrorCode = 0
    /\ scanErr = FALSE
    /\ stdout = << >>
    /\ stderr = << >>
    /\ shellCommands = << >>
    /\ directCommands = << >>
    /\ statuses = << >>
    /\ consumed = << >>
    /\ events = << >>
    /\ result = NoResult
    /\ exitStatus = NoExit
    /\ started = << >>
    /\ rpT = << >>
    /\ rpR = << >>
    /\ rpOut = << >>
    /\ colorOption = "auto"
    /\ noColor = [ set |-> FALSE, value |-> "" ]
    /\ stderrKind = "file"
    /\ useColor = FALSE
    /\ osStdin = << >>
    /\ scanBuf = << >>
    /\ rawToken = << >>

DirectApply ==
    /\ pc = "direct"
    /\ \E run \in RunOutcomes(canFailToStart) :
          /\ statuses' = << ExecuteDirect(commandArgs, run) >>
          /\ started' = << DirectStarts(commandArgs, run) >>
    /\ directCommands' = << commandArgs >>
    /\ pc' = "directdone"
    /\ UNCHANGED << build, opts, args, line, commandDisplay, commandArgs,
                    response, lastErrorCode, scanErr, stdout, stderr,
                    shellCommands, consumed, events, result, exitStatus,
                    canFailToStart, rpVars, colorVars, stdinVars >>

DirectNext == Next \/ DirectApply

SpecDirect == (InitLaunch \/ DirectInit) /\ [][DirectNext]_vars

----------------------------------------------------------------------------
(* The standard input shared by the scanner and fmt.Scanln. main hands     *)
(* os.Stdin to the App, bufio.NewScanner(app.stdin) reads it ahead into    *)
(* its buffer, one or more lines at a read, and fmt.Scanln(&response)      *)
(* reads os.Stdin itself, byte by byte up to the next line feed. The       *)
(* lines are single words or empty, so that Scanln takes a whole line.     *)

StdinLines == { << >>, << "a" >>, << "y" >> }

StdinInputs == UNION { [ 1 .. k -> StdinLines ] : k \in 0 .. MaxLines }

StdinInit ==
    /\ osStdin \in StdinInputs
    /\ scanBuf = << >>
    /\ rawToken = << >>
    /\ build = ""
    /\ opts \in { o \in OptionsType :
                     o.interactive /\ ~o.dryRun /\ ~o.showWhat /\ ~o.showCommand }
    /\ args \in Templates
    /\ pc = "main"
    /\ line = << >>
    /\ commandDisplay = << >>
    /\ commandArgs = << >>
    /\ response = << >>
    /\ lastErrorCode = 0
    /\ scanErr = FALSE
    /\ stdout = << >>
    /\ stderr = << >>
    /\ shellCommands = << >>
    /\ directCommands = << >>
    /\ statuses = << >>
    /\ consumed = << >>
    /\ events = << >>
    /\ result = NoResult
    /\ exitStatus = NoExit
    /\ started = << >>
    /\ canFailToStart = FALSE
    /\ rpT = << >>
    /\ rpR = << >>
    /\ rpOut = << >>
    /\ colorOption = "auto"
    /\ noColor = [ set |-> FALSE, value |-> "" ]
    /\ stderrKind = "file"
    /\ useColor = FALSE

\* what the scanner holds and what is left in the standard input once
\* scanner.Scan() has a line: it reads only when its buffer has none, and a
\* read brings as many of the lines as the input gives at that moment
ScannerReads ==
    IF scanBuf # << >>
    THEN { << scanBuf, osStdin >> }
    ELSE { << SubSeq(osStdin, 1, k), SubSeq(osStdin, k + 1, Len(osStdin)) >> :
              k \in 1 .. Len(osStdin) }

\* scanner.Scan() returned an empty line of the standard input
StdinScanEmpty ==
    /\ pc = "scan"
    /\ \E rd \in ScannerReads :
       LET l == StrippedLine(Head(rd[1]))
           n == Len(consumed) + 1
       IN /\ IsEmptyLine(l)
          /\ rawToken' = Head(rd[1])
          /\ scanBuf' = Tail(rd[1])
          /\ osStdin' = rd[2]
          /\ consumed' = Append(consumed, l)
          /\ line' = l
          /\ stderr' = stderr \o EmptyNotice(opts)
          /\ events' = events \o << << "scan", n >>, << "empty", n >> >>
    /\ response' = << >>
    /\ UNCHANGED << build, opts, args, pc, commandDisplay, commandArgs,
                    lastErrorCode, scanErr, stdout, shellCommands, directCommands,
                    statuses, result, exitStatus, started,
                    canFailToStart, rpVars, colorVars >>

\* scanner.Scan() returned a non-empty line of the standard input
StdinScanLine ==
    /\ pc = "scan"
    /\ \E rd \in ScannerReads :
       LET l == StrippedLine(Head(rd[1]))
           n == Len(consumed) + 1
           display == Display(opts, args, l)
       IN /\ ~IsEmptyLine(l)
          /\ rawToken' = Head(rd[1])
          /\ scanBuf' = Tail(rd[1])
          /\ osStdin' = rd[2]
          /\ consumed' = Append(consumed, l)
          /\ line' = l
          /\ commandDisplay' = display
          /\ commandArgs' = IF opts.shellMode THEN << >> ELSE ResolveArgs(args, l)
          /\ response' = << >>
          /\ stderr' = stderr \o TargetLine(opts, l) \o CommandLine(opts, display)
                              \o PromptLine(opts, display)
          /\ stdout' = stdout \o DryRunOutput(opts, display)
          /\ events' = events \o << << "scan", n >> >> \o LineEvents(opts, n)
          /\ pc' = AfterResolve(opts)
    /\ UNCHANGED << build, opts, args, lastErrorCode, scanErr, shellCommands,
                    directCommands, statuses, result, exitStatus, started,
                    canFailToStart, rpVars, colorVars >>

\* scanner.Scan() found its buffer and the standard input at their end
StdinScanEOF ==
    /\ pc = "scan"
    /\ scanBuf = << >>
    /\ osStdin = << >>
    /\ events' = Append(events, << "eof", Len(consumed) >>)
    /\ response' = << >>
    /\ build' = ReturningBuild(build, scanErr, lastErrorCode)
    /\ result' = FinalResult(scanErr, lastErrorCode)
    /\ exitStatus' = MainExitStatus(FinalResult(scanErr, lastErrorCode))
    /\ stderr' = stderr \o MainMessage(FinalResult(scanErr, lastErrorCode))
    /\ pc' = "exited"
    /\ UNCHANGED << opts, args, line, commandDisplay, commandArgs,
                    lastErrorCode, scanErr, stdout, shellCommands,
                    directCommands, statuses, consumed, started,
                    canFailToStart, rpVars, colorVars, stdinVars >>

\* the line fmt.Scanln(&response) gets from os.Stdin: the next one the
\* scanner has not read, nothing at the end of the input
ScanlnSource ==
    IF osStdin = << >> THEN [ eof |-> TRUE, text |-> << >> ]
    ELSE [ eof |-> FALSE, text |-> Head(osStdin) ]

\* fmt.Scanln(&response) returned with what it read from os.Stdin
StdinConfirm ==
    /\ pc = "confirm"
    /\ response' = Scanln(ScanlnSource)
    /\ osStdin' = IF osStdin = << >> THEN << >> ELSE Tail(osStdin)
    /\ pc' = IF Affirmative(Scanln(ScanlnSource)) THEN "exec" ELSE "scan"
    /\ events' = Append(events,
           << IF Affirmative(Scanln(ScanlnSource)) THEN "accept" ELSE "decline",
              Len(consumed) >>)
    /\ UNCHANGED << build, opts, args, line, commandDisplay, commandArgs,
                    lastErrorCode, scanErr, stdout, stderr, shellCommands,
                    directCommands, statuses, consumed, result, exitStatus,
                    started, canFailToStart, rpVars, colorVars, scanBuf,
                    rawToken >>

StdinNext ==
    \/ MainStart
    \/ StdinScanEmpty
    \/ StdinScanLine
    \/ StdinScanEOF
    \/ StdinConfirm
    \/ Execute
    \/ Sleep

SpecStdin == StdinInit /\ [][StdinNext]_vars

----------------------------------------------------------------------------
(* What the properties speak of *)

IsExec(e) == e[1] = "exec"
IsNonEmpty(l) == l # << >>

\* the executions so far, as events <<"exec", number of the line>>
ExecEvents == SelectSeq(events, IsExec)

\* the number of the input line the i-th execution was for
ExecLine(i) == ExecEvents[i][2]

\* the executor calls so far
NumCalls == Len(shellCommands) + Len(directCommands)

\* the non-empty lines read so far
NonEmptyLines == SelectSeq(consumed, IsNonEmpty)

\* processStdin runs or has run (main accepted the arguments)
Accepted == ValidArgs(opts, args) /\ ValidColor(colorOption)

\* the loop of processStdin has ended because scanner.Scan() returned false
LoopEnded == \E i \in 1 .. Len(events) : events[i][1] \in { "eof", "readerr" }

\* the input was read to its end
InputExhausted == \E i \in 1 .. Len(events) : events[i][1] = "eof"

\* the run is over, as far as processStdin goes
Over == pc = "exited"

\* the positions of the non-zero statuses
Failures(sts) == { i \in 1 .. Len(sts) : sts[i] # 0 }

Max(S) == CHOOSE x \in S : \A y \in S : y <= x

\* the status of the last call that failed, 0 if none did
LastFailure(sts) == IF Failures(sts) = { } THEN 0 ELSE sts[Max(Failures(sts))]

\* The substitution stated by positions: the marker {} stands at i when
\* t[i] = "{" and t[i+1] = "}" (two markers cannot overlap); every marker
\* becomes one copy of r, every other character stays
MarkerAt(t, i) == i >= 1 /\ i < Len(t) /\ t[i] = "{" /\ t[i + 1] = "}"

Markers(t) == { i \in 1 .. Len(t) : MarkerAt(t, i) }

Piece(t, r, i) ==
    IF MarkerAt(t, i) THEN r
    ELSE IF MarkerAt(t, i - 1) THEN << >>
    ELSE << t[i] >>

RECURSIVE PiecesFrom(_, _, _)
PiecesFrom(t, r, i) ==
    IF i > Len(t) THEN << >> ELSE Piece(t, r, i) \o PiecesFrom(t, r, i + 1)

Substituted(t, r) == PiecesFrom(t, r, 1)

\* Substituted for the template elements and lines of the runs, computed once
TemplateElements == UNION { { T[j] : j \in 1 .. Len(T) } : T \in Templates }
Stripped == { StrippedLine(token) : token \in RawLines }
SubstitutedIn == [ t \in TemplateElements |-> [ l \in Stripped |-> Substituted(t, l) ] ]

\* the elements of a sequence of strings with one space between neighbours
RECURSIVE SpaceSeparated(_, _)
SpaceSeparated(elems, n) ==
    IF n = 0 THEN << >>
    ELSE IF n = 1 THEN elems[1]
    ELSE SpaceSeparated(elems, n - 1) \o << SP >> \o elems[n]

\* the resolved command of a line, as the dry run shows it
Preview(l) ==
    IF opts.shellMode THEN SubstitutedIn[args[1]][l]
    ELSE SpaceSeparated([ j \in 1 .. Len(args) |-> SubstitutedIn[args[j]][l] ], Len(args))

----------------------------------------------------------------------------
(* Error policy *)

\* C1: stop on error. Without -f a call that returns a non-zero status is
\* the last call of the run: the calls made are those up to it, no line is
\* read after the line it ran for, the loop is left at once and processStdin
\* returns the failure that carries this status.
C1_StopOnError ==
    ~opts.forceContinue =>
        \A i \in Failures(statuses) :
            /\ i = Len(statuses)
            /\ NumCalls = i
            /\ Len(ExecEvents) = i
            /\ ExecLine(i) = Len(consumed)
            /\ ~LoopEnded
            /\ Over
            /\ result = ErrCommandFailed(statuses[i])

\* status 2 on the first line, with room for two more lines: one call
C1_Witness ==
    /\ ~opts.forceContinue
    /\ statuses = << 2 >>
    /\ NumCalls = 1
    /\ Len(consumed) = 1
    /\ Len(consumed) + 2 <= MaxLines
    /\ result = ErrCommandFailed(2)
    /\ pc = "exited"

\* C2: force-continue completeness. With -f (no dry run, no confirmation)
\* a failure never ends the loop: every non-empty line read is executed once,
\* in order (all of them once the current one has run), and processStdin
\* ends only after scanner.Scan() has returned false; it never returns the
\* stop-on-error failure.
C2_ForceContinueCompleteness ==
    (Accepted /\ opts.forceContinue /\ ~opts.dryRun /\ ~opts.interactive) =>
        LET ex == ExecEvents
            ne == NonEmptyLines
        IN /\ Len(statuses) = Len(ne) - (IF pc = "exec" THEN 1 ELSE 0)
           /\ NumCalls = Len(statuses)
           /\ Len(ex) = Len(statuses)
           /\ \A i \in 1 .. Len(ex) :
                 /\ consumed[ex[i][2]] = ne[i]
                 /\ \A j \in 1 .. Len(ex) : i < j => ex[i][2] < ex[j][2]
           /\ result.kind # "command failed"
           /\ (Over => LoopEnded)
           /\ (result # NoResult => LoopEnded)
           /\ (exitStatus # NoExit => LoopEnded)

\* three lines, the first two fail, all three are executed, then the end
C2_Witness ==
    /\ opts.forceContinue /\ ~opts.dryRun /\ ~opts.interactive
    /\ Len(consumed) = 3
    /\ statuses = << 1, 2, 0 >>
    /\ NumCalls = 3
    /\ InputExhausted
    /\ pc = "exited"

\* C3: force-continue aggregation. With -f, when the input is exhausted and
\* some call failed, the status the run reports (in the error processStdin
\* returns or, in the legacy revision, as the status it exits with) is the
\* status of the last call that returned non-zero.
C3_LastFailureReported ==
    (opts.forceContinue /\ Over /\ InputExhausted /\ ~scanErr
        /\ Failures(statuses) # { }) =>
        /\ build \in { "app", "legacy" }
        /\ build = "app" => result = ErrCompletedWithErrors(LastFailure(statuses))
        /\ build = "legacy" => exitStatus = LastFailure(statuses)

\* statuses 2, 1, 0: the report is 1, which is neither the first failure,
\* nor the largest, nor the status of the last call
C3_Witness ==
    /\ opts.forceContinue
    /\ statuses = << 2, 1, 0 >>
    /\ InputExhausted
    /\ pc = "exited"
    /\ result = ErrCompletedWithErrors(1)

\* C4: run outcome. lastErrorCode is always the status of the last failed
\* call, and 0 exactly when no call failed; processStdin returns nil exactly
\* when it ended on the end of the input, without read error, and no call
\* failed, with and without -f.
C4_RunOutcome ==
    /\ lastErrorCode = LastFailure(statuses)
    /\ (lastErrorCode = 0 <=> \A i \in 1 .. Len(statuses) : statuses[i] = 0)
    /\ (result = Nil =>
            /\ InputExhausted /\ ~scanErr /\ Failures(statuses) = { }
            /\ Over)
    /\ ((Accepted /\ Over /\ InputExhausted /\ ~scanErr /\ Failures(statuses) = { })
            => result = Nil)

\* a success after a failure leaves lastErrorCode alone, and the run fails
C4_Witness ==
    /\ statuses = << 0, 2, 0 >>
    /\ lastErrorCode = 2
    /\ InputExhausted
    /\ pc = "exited"
    /\ result = ErrCompletedWithErrors(2)

----------------------------------------------------------------------------
(* The status of the process *)

\* C5: without -f the process exits with the status of the command that
\* failed, and with 0 when none failed (runs that main accepted and that did
\* not end on a read error).
C5_ExitStatusStopOnError ==
    (Accepted /\ ~opts.forceContinue /\ ~scanErr /\ pc = "exited") =>
        exitStatus = LastFailure(statuses)

\* C6: with -f the process exits, after the input is exhausted, with the
\* status of the last command that failed, and with 0 when none failed.
C6_ExitStatusForceContinue ==
    (Accepted /\ opts.forceContinue /\ ~scanErr /\ pc = "exited") =>
        exitStatus = LastFailure(statuses)

----------------------------------------------------------------------------
(* Dry run and the two modes *)

\* C7: dry-run purity. With -n, in direct and in shell mode, the executor
\* is never called, and the primary output holds one line per non-empty
\* line read, in the order read: the resolved command (direct mode: the
\* substituted arguments with single spaces between them; shell mode: the
\* substituted command string).
C7_DryRunPurity ==
    opts.dryRun =>
        /\ NumCalls = 0
        /\ statuses = << >>
        /\ ExecEvents = << >>
        /\ stdout = [ i \in 1 .. Len(NonEmptyLines) |-> Preview(NonEmptyLines[i]) ]

\* direct mode, lines "a b", "", "{}": two preview lines, no call
C7_Witness ==
    /\ opts.dryRun /\ ~opts.shellMode
    /\ args = DirectTemplate
    /\ consumed = << << "a", SP, "b" >>, << >>, << "{", "}" >> >>
    /\ stdout = << << "e", SP, "a", SP, "b", SP, "x", "a", SP, "b", "a", SP, "b" >>,
                   << "e", SP, "{", "}", SP, "x", "{", "}", "{", "}" >> >>
    /\ NumCalls = 0
    /\ pc = "exited"

\* C8: direct-mode argument integrity. Every ExecuteDirect call gets as
\* many arguments as the template has elements, the j-th being the j-th
\* template element with every {} replaced by the whole line the call is
\* for; spaces in the line never change the number of arguments.
C8_DirectArgumentIntegrity ==
    ~opts.shellMode =>
        LET ex == ExecEvents
        IN /\ Len(directCommands) = Len(ex)
           /\ \A i \in 1 .. Len(directCommands) :
                 /\ Len(directCommands[i]) = Len(args)
                 /\ \A j \in 1 .. Len(args) :
                       directCommands[i][j] = SubstitutedIn[args[j]][consumed[ex[i][2]]]

\* the line "a b" on the template e, {}, x{}{}: three arguments
C8_Witness ==
    /\ ~opts.shellMode
    /\ Len(directCommands) = 2
    /\ consumed[ExecLine(2)] = << "a", SP, "b" >>
    /\ directCommands[2] = << << "e" >>, << "a", SP, "b" >>,
                              << "x", "a", SP, "b", "a", SP, "b" >> >>

\* C9: shell-mode string integrity and mode exclusivity. In shell mode
\* every executed line makes one ExecuteShell call, in order, whose argument
\* is the template string with every {} replaced by that line, and
\* ExecuteDirect is never called; in direct mode ExecuteShell is never
\* called. Without dry run and confirmation every non-empty line read is an
\* executed line.
C9_ShellIntegrity ==
    /\ opts.shellMode =>
          LET ex == ExecEvents
          IN /\ directCommands = << >>
             /\ Len(shellCommands) = Len(ex)
             /\ \A i \in 1 .. Len(shellCommands) :
                   /\ shellCommands[i] = SubstitutedIn[args[1]][consumed[ex[i][2]]]
                   /\ \A j \in 1 .. Len(shellCommands) : i < j => ex[i][2] < ex[j][2]
             /\ (Accepted /\ ~opts.dryRun /\ ~opts.interactive) =>
                   Len(shellCommands) =
                       Len(NonEmptyLines) - (IF pc = "exec" THEN 1 ELSE 0)
    /\ ~opts.shellMode => shellCommands = << >>

\* shell mode, lines "{}" and "a b" on the template "e {} {}"
C9_Witness ==
    /\ opts.shellMode
    /\ args = ShellTemplate
    /\ consumed = << << "{", "}" >>, << "a", SP, "b" >> >>
    /\ shellCommands = << << "e", SP, "{", "}", SP, "{", "}" >>,
                          << "e", SP, "a", SP, "b", SP, "a", SP, "b" >> >>
    /\ directCommands = << >>

----------------------------------------------------------------------------
(* Substitution *)

\* C10: placeholder substitution. replacePlaceholders(T, R) is T with each
\* marker {} replaced by one copy of R and every other character unchanged;
\* a {} inside R, or one that R forms with its neighbours, is not replaced
\* again; without a marker in T the result is T.
C10_PlaceholderSubstitution ==
    pc = "rpdone" =>
        /\ rpOut = Substituted(rpT, rpR)
        /\ Len(rpOut) = Len(rpT) + Cardinality(Markers(rpT)) * (Len(rpR) - 2)
        /\ (Markers(rpT) = { } => rpOut = rpT)

\* T = "{{}}" and R = "}{": the result "{}{}" holds two markers formed
\* across the borders of R, and they stay
C10_Witness ==
    /\ pc = "rpdone"
    /\ rpT = << "{", "{", "}", "}" >>
    /\ rpR = << "}", "{" >>
    /\ rpOut = << "{", "}", "{", "}" >>

----------------------------------------------------------------------------
(* Empty lines *)

IsWarning(m) == m.kind = "warning"
IsEmpty(l) == l = << >>

\* the empty lines read so far
EmptyLines == SelectSeq(consumed, IsEmpty)

\* the step reads an empty line
ReadsEmptyLine == consumed' # consumed /\ line' = << >>

\* the notice for an empty line, as the README states it
Notice ==
    [ kind |-> "warning", text |-> << "[empty line]" >>, code |-> 0,
      colored |-> useColor ]

\* C11: empty-line skip. Whatever the options, the only things that happen
\* for an empty line are its read and the empty check: no target or command
\* display, no preview, no prompt, no response, no call, no exit report, no
\* wait; reading it leaves the resolved command, the calls, the primary
\* output and the accumulated status alone and goes on to the next read.
\* There are never more calls than non-empty lines (none when all lines are
\* empty), and without dry run and confirmation the non-empty lines before
\* and after an empty one are all executed while no call stops the run.
C11_EmptyLineSkip ==
    /\ [](LET nonEmpty == Len(consumed) - Len(EmptyLines)
          IN /\ \A i \in 1 .. Len(events) :
                   LET e == events[i]
                   IN (e[1] \notin { "scan", "empty", "eof", "readerr" })
                         => consumed[e[2]] # << >>
             /\ NumCalls <= nonEmpty
             /\ Len(stdout) <= nonEmpty
             /\ (nonEmpty = 0 => NumCalls = 0 /\ statuses = << >>)
             /\ ((Accepted /\ ~opts.dryRun /\ ~opts.interactive
                     /\ result.kind # "command failed")
                   => NumCalls = nonEmpty - (IF pc = "exec" THEN 1 ELSE 0)))
    /\ [][ReadsEmptyLine =>
            /\ pc = "scan" /\ pc' = "scan"
            /\ UNCHANGED << commandDisplay, commandArgs, stdout, shellCommands,
                            directCommands, statuses, lastErrorCode, result,
                            exitStatus >>]_vars

\* the lines "a b", "", "a b" with a wait configured: two calls
C11_Witness ==
    /\ ~opts.dryRun /\ ~opts.interactive /\ opts.interval > 0 /\ opts.showWhat
    /\ consumed = << << "a", SP, "b" >>, << >>, << "a", SP, "b" >> >>
    /\ NumCalls = 2
    /\ statuses = << 0, 0 >>
    /\ pc = "exited"

\* C12: empty-line notice. Reading an empty line writes exactly one
\* "[empty line]" notice to stderr when -w or -l is given and nothing to
\* stderr otherwise, and never anything to stdout; nothing else writes such
\* a notice, so stderr holds one per empty line read, or none.
C12_EmptyLineNotice ==
    /\ [](Len(SelectSeq(stderr, IsWarning)) =
              IF opts.showWhat \/ opts.showCommand THEN Len(EmptyLines) ELSE 0)
    /\ [][ReadsEmptyLine =>
            /\ stdout' = stdout
            /\ stderr' = IF opts.showWhat \/ opts.showCommand
                         THEN Append(stderr, Notice)
                         ELSE stderr]_vars

\* -l without -w: two empty lines, two notices
C12_Witness ==
    /\ opts.showCommand /\ ~opts.showWhat
    /\ Len(EmptyLines) = 2
    /\ SelectSeq(stderr, IsWarning) = << Notice, Notice >>

----------------------------------------------------------------------------
(* Confirmation *)

Yes == { << "y" >>, << "Y" >> }

\* C13: interactive confirmation. With -i and without -n: the response
\* read for a line sends it to the executor exactly when it is "y" or "Y";
\* any other response, the empty one of an empty answer or of the end of
\* the source included, goes back to the read of the next line with no
\* call, nothing written, and lastErrorCode, result and exit status as they
\* were. A call is made only for a line whose response was a yes, and a wait
\* only follows a call.
C13_InteractiveConfirmation ==
    [][(opts.interactive /\ ~opts.dryRun) =>
         /\ (pc = "confirm" =>
               /\ consumed' = consumed
               /\ IF response' \in Yes
                  THEN pc' = "exec"
                  ELSE /\ pc' = "scan"
                       /\ UNCHANGED << statuses, shellCommands, directCommands,
                                       started, stderr, stdout, lastErrorCode,
                                       result, exitStatus >>)
         /\ (pc' = "exec" => pc = "confirm" /\ response' \in Yes)
         /\ ((statuses' # statuses \/ shellCommands' # shellCommands
                \/ directCommands' # directCommands)
               => /\ pc = "exec" /\ response \in Yes
                  /\ consumed' = consumed
                  /\ Len(statuses') = Len(statuses) + 1)
         /\ (pc = "exec" => Len(statuses') = Len(statuses) + 1)
         /\ (pc' = "sleep" => pc = "exec")]_vars

\* the first line declined, the second accepted and run
C13_Witness ==
    /\ opts.interactive /\ ~opts.dryRun
    /\ Len(consumed) = 2
    /\ Len(NonEmptyLines) = 2
    /\ events[Len(events)] = << "exec", 2 >>
    /\ Len(statuses) = 1
    /\ \E i \in 1 .. Len(events) : events[i] = << "decline", 1 >>

----------------------------------------------------------------------------
(* The wait between the commands *)

IsSleep(e) == e[1] = "sleep"

\* the waits so far
SleepEvents == SelectSeq(events, IsSleep)

\* the number of waits among the events i+1 .. j-1
SleepsBetween(i, j) ==
    Cardinality({ k \in (i + 1) .. (j - 1) : events[k][1] = "sleep" })

\* no call among the events i+1 .. j-1
Consecutive(i, j) == \A k \in (i + 1) .. (j - 1) : events[k][1] # "exec"

\* C14: interval placement. A wait happens only with -t greater than zero,
\* only right after an executor call for the same line (and its exit report),
\* and the next thing after it is the next read; so never after an empty,
\* previewed or declined line. With -t greater than zero exactly one wait
\* lies between two consecutive calls (two between the first and the third).
\* A wait begins only when a call returns, and when it ends the next line
\* is read with nothing else changed.
C14_IntervalPlacement ==
    /\ [](LET n == Len(events)
          IN /\ \A i \in 1 .. n :
                   LET e == events[i]
                   IN /\ (e[1] = "sleep" =>
                            /\ opts.interval > 0
                            /\ i > 1
                            /\ events[i - 1][1] \in { "exec", "exit" }
                            /\ events[i - 1][2] = e[2]
                            /\ consumed[e[2]] # << >>
                            /\ (i < n => events[i + 1][1] \in { "scan", "eof", "readerr" }))
                      /\ ((e[1] = "exec" /\ opts.interval > 0) =>
                            \A j \in (i + 1) .. n :
                               (events[j][1] = "exec" /\ Consecutive(i, j))
                                  => SleepsBetween(i, j) = 1)
             /\ (opts.interval = 0 => pc # "sleep"))
    /\ [][/\ (pc' = "sleep" => pc = "exec" /\ statuses' # statuses /\ opts.interval > 0)
          /\ (pc = "sleep" =>
                /\ pc' = "scan"
                /\ UNCHANGED << consumed, statuses, shellCommands, directCommands,
                                stdout, stderr, lastErrorCode, result >>)]_vars

\* three calls and the two waits between them
C14_Witness ==
    /\ opts.interval > 0
    /\ Len(ExecEvents) = 3
    /\ Len(SleepEvents) = 2
    /\ events[Len(events)][1] \in { "exec", "exit" }

\* C15: no trailing delay. When the input is exhausted, the last thing
\* before the end of the input was found is not a wait.
C15_NoTrailingDelay ==
    \A i \in 1 .. Len(events) :
        events[i][1] = "eof" => (i = 1 \/ events[i - 1][1] # "sleep")

----------------------------------------------------------------------------
(* Order *)

\* C16: strict sequential order. The calls are those of the executed
\* lines, one each, in input order: the call numbers, the statuses and the
\* executions agree, the lines executed have strictly increasing numbers,
\* and each call has the command resolved for its line. What happens is
\* ordered by line: the lines are read in order one by one, and nothing
\* happens for a line once the next was read. A line is read only at the
\* read, never while a confirmation, a call or a wait is pending, and a call
\* is made only at the call.
C16_SequentialOrder ==
    /\ [](LET ex == ExecEvents
              n == Len(events)
          IN /\ Len(ex) = NumCalls
             /\ Len(statuses) = NumCalls
             /\ \A i \in 1 .. Len(ex) :
                   /\ (i < Len(ex) => ex[i][2] < ex[i + 1][2])
                   /\ ex[i][2] \in 1 .. Len(consumed)
                   /\ consumed[ex[i][2]] # << >>
             /\ \A i \in 1 .. n :
                   LET e == events[i]
                       before == IF i = 1 THEN 0 ELSE events[i - 1][2]
                   IN /\ e[2] <= Len(consumed)
                      /\ before <= e[2]
                      /\ (e[1] = "scan" => e[2] = before + 1)
             /\ (pc \in { "confirm", "exec", "sleep" } =>
                   /\ n > 0
                   /\ events[n][2] = Len(consumed)))
    /\ [][/\ (consumed' # consumed =>
                /\ pc = "scan"
                /\ Len(consumed') = Len(consumed) + 1
                /\ SubSeq(consumed', 1, Len(consumed)) = consumed
                /\ UNCHANGED << statuses, shellCommands, directCommands >>)
          /\ (statuses' # statuses =>
                /\ pc = "exec"
                /\ consumed' = consumed
                /\ (IF opts.shellMode
                    THEN shellCommands' = Append(shellCommands, commandDisplay)
                    ELSE directCommands' = Append(directCommands, commandArgs)))
         ]_vars

\* three lines, the second empty: the calls are those of the lines 1 and 3
C16_Witness ==
    /\ Len(consumed) = 3
    /\ consumed[2] = << >>
    /\ Len(ExecEvents) = 2
    /\ ExecLine(1) = 1
    /\ ExecLine(2) = 3
    /\ NumCalls = 2
    /\ pc = "exited"

----------------------------------------------------------------------------
(* Reports *)

IsExitMsg(m) == m.kind \in { "success", "error" }

\* the "[exit: N]" line for the status N
ExitReport(N) ==
    [ kind |-> IF N = 0 THEN "success" ELSE "error",
      text |-> << "[exit: %d]" >>, code |-> N, colored |-> useColor ]

\* the message main ends a failed run with
Failed ==
    [ kind |-> "fatal", text |-> << "Error: %v" >>, code |-> 0, colored |-> FALSE ]

\* C17: exit-status reporting. With -l the "[exit: N]" lines on stderr are
\* those of the executor calls, one for each call in order, N the status the
\* call returned, written as a success for 0 and as an error otherwise (also
\* for the failure that stops the run); the return of a call writes its line
\* and nothing else (but the message main ends a failed run with), and no
\* other step writes such a line; without -l there is none.
C17_ExitStatusReporting ==
    /\ [](LET exits == SelectSeq(stderr, IsExitMsg)
          IN IF opts.showCommand
             THEN /\ Len(exits) = Len(statuses)
                  /\ \A i \in 1 .. Len(exits) : exits[i] = ExitReport(statuses[i])
             ELSE exits = << >>)
    /\ [][IF statuses' # statuses
          THEN /\ Len(statuses') = Len(statuses) + 1
               /\ \E rest \in { << >>, << Failed >> } :
                     stderr' = (IF opts.showCommand
                                THEN Append(stderr, ExitReport(statuses'[Len(statuses')]))
                                ELSE stderr) \o rest
          ELSE \A i \in (Len(stderr) + 1) .. Len(stderr') : ~IsExitMsg(stderr'[i])
         ]_vars

\* -l without -f: a success, then the failure 2 that stops the run
C17_Witness ==
    /\ opts.showCommand /\ ~opts.forceContinue
    /\ statuses = << 0, 2 >>
    /\ SelectSeq(stderr, IsExitMsg) = << ExitReport(0), ExitReport(2) >>
    /\ stderr[Len(stderr) - 1] = ExitReport(2)
    /\ pc = "exited"

----------------------------------------------------------------------------
(* Failures of the environment *)

\* C18: input read failure. When reading the input fails, processStdin
\* returns the read error, with and without -f and whatever the commands
\* before returned, never the failure that carries the last status; the read
\* failure is the last thing that happens (no line is read or executed after
\* it), and the process exits with 1.
C18_ReadFailure ==
    /\ scanErr =>
          /\ result = ErrReadingStdin
          /\ result.kind \notin { "completed with errors", "command failed", "nil" }
          /\ pc = "exited"
          /\ exitStatus = 1
          /\ build = ""
          /\ events[Len(events)] = << "readerr", Len(consumed) >>
          /\ \A i \in 1 .. Len(events) - 1 : events[i][1] # "readerr"
    /\ (result = ErrReadingStdin => scanErr)

\* -f, a command failed with 2, then reading failed
C18_Witness ==
    /\ opts.forceContinue
    /\ scanErr
    /\ statuses = << 0, 2 >>
    /\ lastErrorCode = 2
    /\ result = ErrReadingStdin
    /\ pc = "exited"

\* the calls for which no process could be started
NotStarted == { i \in 1 .. Len(started) : ~started[i] }

\* C19: launch failure is an ordinary failure. A call for which the
\* program or the shell could not be started returns 1. Without -f it is
\* the last call: the run stops there with the failure that carries 1. With
\* -f the run does not stop on it: 1 is the recorded status as long as no
\* later call fails, the next line is read (after the wait, if one is
\* configured), and the run ends only when reading ends.
C19_LaunchFailure ==
    \A i \in NotStarted :
        /\ statuses[i] = 1
        /\ i \in Failures(statuses)
        /\ (~opts.forceContinue =>
              /\ i = Len(statuses)
              /\ NumCalls = i
              /\ Over
              /\ ~LoopEnded
              /\ result = ErrCommandFailed(1)
              /\ lastErrorCode = 1)
        /\ (opts.forceContinue =>
              /\ result.kind # "command failed"
              /\ (i = Max(Failures(statuses)) => lastErrorCode = 1)
              /\ (i = Len(statuses) =>
                    /\ pc \in { "sleep", "scan", "confirm", "exec", "exited" }
                    /\ (pc = "exited" => LoopEnded)
                    /\ (pc \in { "confirm", "exec" } => ExecLine(i) < Len(consumed)))
              /\ (Over /\ InputExhausted /\ i = Max(Failures(statuses)) =>
                    /\ (build = "app" => result = ErrCompletedWithErrors(1))
                    /\ (build = "legacy" => exitStatus = 1)))

\* -f: a command fails with 2, the next cannot be started, the third runs
C19_Witness ==
    /\ opts.forceContinue
    /\ statuses = << 2, 1, 0 >>
    /\ started = << TRUE, FALSE, TRUE >>
    /\ lastErrorCode = 1
    /\ InputExhausted
    /\ result = ErrCompletedWithErrors(1)

----------------------------------------------------------------------------
(* Colour *)

\* C20: colour decision. With NO_COLOR set to a non-empty value
\* shouldUseColor returns false whatever --color is; with NO_COLOR unset or
\* empty it returns true for "always", false for "never", false for "auto"
\* when stderr is not a terminal, and false for every other value.
C20_ColorDecision ==
    pc = "colordone" =>
        IF noColor.set /\ noColor.value # ""
        THEN useColor = FALSE
        ELSE /\ (colorOption = "always" => useColor = TRUE)
             /\ (colorOption = "never" => useColor = FALSE)
             /\ ((colorOption = "auto" /\ stderrKind # "terminal") => useColor = FALSE)
             /\ (colorOption \notin { "never", "always", "auto" } => useColor = FALSE)

\* --color always with NO_COLOR=1: no colour
C20_Witness ==
    /\ pc = "colordone"
    /\ colorOption = "always"
    /\ noColor = [ set |-> TRUE, value |-> "1" ]
    /\ useColor = FALSE

----------------------------------------------------------------------------
(* Configuration *)

\* the configurations main does not accept, as the README states them
InvalidConfiguration ==
    \/ Len(args) = 0
    \/ (opts.shellMode /\ Len(args) # 1)
    \/ colorOption \notin { "never", "always", "auto" }

\* C21: invalid configuration is rejected before processing. Without a
\* command, with -c and more or less than one argument, or with a --color
\* other than never, always, auto, the program does nothing but exit with a
\* status that is not 0: no line is read, no command resolved or run, nothing
\* written but the message of main, processStdin is not entered.
C21_InvalidConfiguration ==
    InvalidConfiguration =>
        /\ pc \in { "main", "exited" }
        /\ (pc = "exited" => exitStatus \notin { 0, NoExit })
        /\ consumed = << >>
        /\ events = << >>
        /\ NumCalls = 0
        /\ statuses = << >>
        /\ stdout = << >>
        /\ \A i \in 1 .. Len(stderr) : stderr[i].kind = "fatal"
        /\ commandDisplay = << >>
        /\ result = NoResult

\* --color Always with a valid command: exit 1, nothing read
C21_Witness ==
    /\ colorOption = "Always"
    /\ args = DirectTemplate
    /\ ~opts.shellMode
    /\ pc = "exited"
    /\ exitStatus = 1
    /\ consumed = << >>

----------------------------------------------------------------------------
(* The two output streams *)

\* C22: primary output stream discipline. What the program writes to
\* stdout are the previews of a dry run, one per non-empty line read;
\* without -n stdout stays empty in every option combination, and the
\* target lines, command lines, prompts, exit reports and notices are
\* messages on stderr.
C22_PrimaryOutput ==
    /\ (~opts.dryRun => stdout = << >>)
    /\ (opts.dryRun => Len(stdout) = Len(consumed) - Len(EmptyLines))
    /\ (line # << >> /\ stdout # << >> => stdout[Len(stdout)] = Preview(line))
    /\ \A i \in 1 .. Len(stderr) :
          stderr[i].kind \in { "warning", "target", "command", "prompt",
                               "success", "error", "fatal" }

\* no dry run, everything shown and asked: two lines run, stdout empty
C22_Witness ==
    /\ ~opts.dryRun /\ opts.showWhat /\ opts.showCommand /\ opts.interactive
    /\ Len(statuses) = 2
    /\ Len(EmptyLines) = 1
    /\ Len(stderr) >= 9
    /\ stdout = << >>
    /\ pc = "exited"

----------------------------------------------------------------------------
(* The order of what happens for a line *)

\* what comes right before the confirmation or the call of a non-empty line
BeforeAsk ==
    IF opts.showCommand THEN "command"
    ELSE IF opts.showWhat THEN "target"
    ELSE "scan"

\* the one thing that can come right before an event of the kind k
Before(k) ==
    CASE k = "empty" -> "scan"
      [] k = "target" -> "scan"
      [] k = "command" -> IF opts.showWhat THEN "target" ELSE "scan"
      [] k = "dryrun" -> BeforeAsk
      [] k = "prompt" -> BeforeAsk
      [] k = "accept" -> "prompt"
      [] k = "decline" -> "prompt"
      [] k = "exec" -> IF opts.interactive THEN "accept" ELSE BeforeAsk
      [] k = "exit" -> "exec"
      [] k = "sleep" -> IF opts.showCommand THEN "exit" ELSE "exec"

\* the flag an event of the kind k needs
Wanted(k) ==
    CASE k = "target" -> opts.showWhat
      [] k = "command" -> opts.showCommand
      [] k = "dryrun" -> opts.dryRun
      [] k = "prompt" -> opts.interactive /\ ~opts.dryRun
      [] k = "accept" -> opts.interactive /\ ~opts.dryRun
      [] k = "decline" -> opts.interactive /\ ~opts.dryRun
      [] k = "exec" -> ~opts.dryRun
      [] k = "exit" -> opts.showCommand /\ ~opts.dryRun
      [] k = "sleep" -> opts.interval > 0 /\ ~opts.dryRun
      [] OTHER -> TRUE

\* the last thing that happens for a line
Closing ==
    { "empty", "dryrun", "decline" }
        \cup (IF opts.interval > 0 THEN { "sleep" }
              ELSE IF opts.showCommand THEN { "exit" } ELSE { "exec" })

\* C23: per-line event order. For a non-empty line the things that
\* happen are, in this order and each only with its flag: target display
\* (-w), command display (-l), prompt (-i without -n), call, "[exit: N]"
\* (-l), wait (-t): every event has the one predecessor this order gives it,
\* within the same line, and the read of the next line (or the end of the
\* input) comes only after the last event of the line before.
C23_EventOrder ==
    [](\A i \in 1 .. Len(events) :
          LET f == events[i]
              k == f[1]
          IN /\ Wanted(k)
             /\ IF k \in { "scan", "eof", "readerr" }
                THEN i > 1 => events[i - 1][1] \in Closing
                ELSE /\ i > 1
                     /\ events[i - 1] = << Before(k), f[2] >>)

\* everything on: the events of the first line are all there, in order
C23_Witness ==
    /\ opts.showWhat /\ opts.showCommand /\ opts.interactive /\ ~opts.dryRun
    /\ opts.interval > 0
    /\ Len(events) >= 9
    /\ SubSeq(events, 1, 9) =
          << << "scan", 1 >>, << "target", 1 >>, << "command", 1 >>,
             << "prompt", 1 >>, << "accept", 1 >>, << "exec", 1 >>,
             << "exit", 1 >>, << "sleep", 1 >>, << "scan", 2 >> >>

IsTarget(m) == m.kind = "target"
IsCommand(m) == m.kind = "command"
IsPrompt(m) == m.kind = "prompt"

\* C24: dry run takes precedence. With -n no prompt is written and no
\* response read even with -i, no "[exit: N]" is written even with -l, and
\* there is no wait even with -t; the target and the command of every
\* non-empty line are still shown on stderr when -w and -l are given.
C24_DryRunPrecedence ==
    /\ [](opts.dryRun =>
            /\ pc \notin { "confirm", "exec", "sleep" }
            /\ response = << >>
            /\ \A i \in 1 .. Len(events) :
                  events[i][1] \notin { "prompt", "accept", "decline", "exec",
                                        "exit", "sleep" }
            /\ SelectSeq(stderr, IsPrompt) = << >>
            /\ SelectSeq(stderr, IsExitMsg) = << >>
            /\ Len(SelectSeq(stderr, IsTarget)) =
                  IF opts.showWhat THEN Len(consumed) - Len(EmptyLines) ELSE 0
            /\ Len(SelectSeq(stderr, IsCommand)) =
                  IF opts.showCommand THEN Len(consumed) - Len(EmptyLines) ELSE 0)
    /\ [][(opts.dryRun /\ consumed' # consumed /\ line' # << >>) =>
            /\ pc' = "scan"
            /\ response' = << >>
            /\ stderr' = stderr
                  \o (IF opts.showWhat
                      THEN << [ kind |-> "target", text |-> line', code |-> 0,
                                colored |-> useColor ] >>
                      ELSE << >>)
                  \o (IF opts.showCommand
                      THEN << [ kind |-> "command",
                                text |-> << ">", SP >> \o Preview(line'),
                                code |-> 0, colored |-> useColor ] >>
                      ELSE << >>)]_vars

\* -n with -i, -l, -w and -t: two lines shown and previewed, no prompt
C24_Witness ==
    /\ opts.dryRun /\ opts.interactive /\ opts.showCommand /\ opts.showWhat
    /\ opts.interval > 0
    /\ Len(consumed) = 2
    /\ Len(stdout) = 2
    /\ Len(stderr) = 4
    /\ pc = "exited"

----------------------------------------------------------------------------
(* Line terminators *)

\* k carriage returns
RECURSIVE CRs(_)
CRs(k) == IF k = 0 THEN << >> ELSE << CR >> \o CRs(k - 1)

\* C25 as stated: the line is the text between the line feeds without
\* one carriage return at its end, if there is one; further carriage
\* returns at the end stay.
C25_TerminatorOnly ==
    pc = "stripdone" =>
        line = IF rawToken # << >> /\ rawToken[Len(rawToken)] = CR
               THEN SubSeq(rawToken, 1, Len(rawToken) - 1)
               ELSE rawToken

\* C25, amended: the line is the text between the line feeds without all
\* the carriage returns at its end, however many; every other character
\* stays, spaces at the end and carriage returns elsewhere included.
C25_TrailingCRsStripped ==
    pc = "stripdone" =>
        /\ \E k \in 0 .. Len(rawToken) : rawToken = line \o CRs(k)
        /\ (line # << >> => line[Len(line)] # CR)

\* "a \r\r": both carriage returns go, the space stays
C25_Witness ==
    /\ pc = "stripdone"
    /\ rawToken = << "a", SP, CR, CR >>
    /\ line = << "a", SP >>

----------------------------------------------------------------------------
(* No arguments *)

\* C26: ExecuteDirect with no arguments starts no process and returns 0;
\* in a run of the program, where main has seen at least one argument,
\* ExecuteDirect is never given an empty argument list.
C26_EmptyArguments ==
    /\ (pc = "directdone" /\ commandArgs = << >>
            => statuses = << 0 >> /\ started = << FALSE >>)
    /\ (pc \notin { "direct", "directdone" }
            => /\ \A i \in 1 .. Len(directCommands) : directCommands[i] # << >>
               /\ (pc = "exec" /\ ~opts.shellMode => commandArgs # << >>))

\* ExecuteDirect was called with no arguments and has returned
C26_Witness ==
    /\ pc = "directdone"
    /\ directCommands = << << >> >>
    /\ statuses = << 0 >>
    /\ started = << FALSE >>

----------------------------------------------------------------------------
(* The template and the resolved command *)

\* the arguments resolved for the line l from the template alone
PreviewArgs(l) ==
    IF opts.shellMode THEN << >>
    ELSE [ j \in 1 .. Len(args) |-> SubstitutedIn[args[j]][l] ]

\* C27: no step changes the template, and the command resolved when a
\* non-empty line is read, like the one handed to the executor, is the
\* template with the markers replaced by that line, whatever the lines, the
\* commands, the statuses and the responses before it were.
C27_TemplateFreshness ==
    [][/\ args' = args
       /\ (Len(consumed') > Len(consumed) /\ line' # << >>
              => /\ commandDisplay' = Preview(line')
                 /\ commandArgs' = PreviewArgs(line'))
       /\ (Len(shellCommands') > Len(shellCommands)
              => shellCommands'[Len(shellCommands')] = Preview(line))
       /\ (Len(directCommands') > Len(directCommands)
              => directCommands'[Len(directCommands')] = PreviewArgs(line))]_vars

\* the second command, for another line, is about to run after the first
\* one has failed
C27_Witness ==
    /\ pc = "exec"
    /\ Len(statuses) = 1 /\ statuses[1] # 0
    /\ Len(consumed) = 2
    /\ consumed[1] # << >> /\ line # << >> /\ consumed[1] # line
    /\ commandDisplay = Preview(line)
    /\ commandDisplay # Preview(consumed[1])

----------------------------------------------------------------------------
(* The confirmation and the input *)

\* the lines of the input: those handed to the loop, those the scanner
\* holds and those still unread
InputLines == consumed \o scanBuf \o osStdin

\* C28 as stated: reading a confirmation takes nothing from the input; the
\* lines of the input stay what they were, each one reaching the loop in
\* its turn.
C28_ConfirmationKeepsInput ==
    [][/\ (pc = "confirm" => osStdin' = osStdin)
       /\ InputLines' = InputLines]_vars

----------------------------------------------------------------------------
(* What the reporting options leave alone *)

\* the input lines, by number, that were answered with y or Y
AcceptedLines ==
    { events[i][2] : i \in { j \in 1 .. Len(events) : events[j][1] = "accept" } }

\* the executor has been called for the input line i
Called(i) ==
    /\ consumed[i] # << >>
    /\ ~opts.dryRun
    /\ (opts.interactive => i \in AcceptedLines)
    /\ (i = Len(consumed) => pc # "exec")

\* the input line i has been previewed by the dry run
Previewed(i) == consumed[i] # << >> /\ opts.dryRun

\* the numbers of the input lines read so far
LineNumbers == [ i \in 1 .. Len(consumed) |-> i ]

\* what processStdin returns for the statuses of the calls and the state of
\* the reading
CoreResult ==
    IF scanErr THEN ErrReadingStdin
    ELSE IF Failures(statuses) = { } THEN Nil
    ELSE IF ~opts.forceContinue THEN ErrCommandFailed(LastFailure(statuses))
    ELSE ErrCompletedWithErrors(LastFailure(statuses))

\* C29: the calls of the executor with their arguments, the primary output
\* and the outcome of a run are fixed by the input lines, the template, the
\* statuses of the calls, the responses and the options -n, -i, -f and -c
\* alone: -s, -l and the colouring do not enter them, so two runs that
\* differ only in these do the same.
C29_ReportingObservational ==
    [](Accepted =>
        LET called == SelectSeq(LineNumbers, Called)
            previewed == SelectSeq(LineNumbers, Previewed)
        IN /\ NumCalls = Len(called)
           /\ Len(statuses) = Len(called)
           /\ shellCommands =
                 IF opts.shellMode
                 THEN [ j \in 1 .. Len(called) |-> Preview(consumed[called[j]]) ]
                 ELSE << >>
           /\ directCommands =
                 IF opts.shellMode THEN << >>
                 ELSE [ j \in 1 .. Len(called) |-> PreviewArgs(consumed[called[j]]) ]
           /\ stdout = [ j \in 1 .. Len(previewed) |-> Preview(consumed[previewed[j]]) ]
           /\ (Over /\ build # "legacy"
                  => /\ result = CoreResult
                     /\ exitStatus = IF CoreResult = Nil THEN 0 ELSE 1)
           /\ (Over /\ build = "legacy" => exitStatus = LastFailure(statuses)))

\* a coloured run with -s and -l that made two calls, the first one failed,
\* and has ended
C29_Witness ==
    /\ opts.showWhat /\ opts.showCommand /\ useColor
    /\ opts.forceContinue /\ ~opts.dryRun /\ opts.interactive
    /\ Len(statuses) = 2 /\ statuses[1] # 0
    /\ Len(consumed) = 3
    /\ pc = "exited"

\* the same run without -s, without -l and without colour
C29_WitnessPlain ==
    /\ ~opts.showWhat /\ ~opts.showCommand /\ ~useColor
    /\ opts.forceContinue /\ ~opts.dryRun /\ opts.interactive
    /\ Len(statuses) = 2 /\ statuses[1] # 0
    /\ Len(consumed) = 3
    /\ pc = "exited"

----------------------------------------------------------------------------
(* Termination *)

\* the step reads a line
ReadsLine == Len(consumed') > Len(consumed)

\* the step calls the executor
Calls == Len(statuses') > Len(statuses)

\* C30: when every call and every read returns, processStdin comes to its
\* end; on the way every step that reads takes one line more of the input,
\* and every call is one call, the first for the line read last.
C30_Termination ==
    /\ <>Over
    /\ [][/\ (ReadsLine => consumed' = Append(consumed, line'))
          /\ (~ReadsLine => consumed' = consumed)
          /\ (Calls => /\ Len(statuses') = Len(statuses) + 1
                       /\ NumCalls' = NumCalls + 1
                       /\ \A i \in 1 .. Len(events) :
                             events[i] # << "exec", Len(consumed) >>)]_vars

\* the input of MaxLines lines was read to its end, one call was made
C30_Witness ==
    /\ pc = "exited"
    /\ InputExhausted
    /\ Len(consumed) >= 3
    /\ Len(statuses) = 1
    /\ Len(ExecEvents) = 1

====
